---- MODULE Spec2Model ----
(***************************************************************************)
(* Playto community feed: the like toggle, the comment tree builder and    *)
(* their store, modelled from the backend code quoted in EXPLAINER.md.     *)
(*                                                                         *)
(* The store is the relational database the views run against (PostgreSQL, *)
(* READ COMMITTED): a statement sees committed rows and the transaction's  *)
(* own writes; a write to a row another open transaction has written waits *)
(* for that transaction to end.  Every like request is one transaction     *)
(* (@transaction.atomic).  Like.objects.get_or_create is Django's: get();  *)
(* on DoesNotExist create() in a savepoint; on IntegrityError get() again  *)
(* and return (row, False), re-raising the IntegrityError only when that   *)
(* second get() finds no row.                                              *)
(***************************************************************************)
EXTENDS Integers, Sequences, FiniteSets, TLC

\* ------------------------------------------------------------------ bounds
NumUsers == 2
MaxReq == 2
MaxToggles == 3
MaxComments == 3
MaxRows == 4
MaxItems == 5
MaxFeed == 3
NumAuthors == 6

Users == 1..NumUsers
Req == 1..MaxReq

\* The polymorphic like target: (content type, object id).
Targets == {<<"post", 1>>, <<"comment", 1>>}

VARIABLES
    likes,        \* committed rows of feed_like: records [id, user, target]
    nextId,       \* the primary-key sequence of feed_like
    like_count,   \* committed like_count column of each post / comment
    req,          \* the like requests being served, one record per slot
    startedBy,    \* history: number of toggles started per (user, target)
    startedOn,    \* history: number of toggles started per target
    sequential,   \* history: no two toggles on the target have overlapped
    all_comments,      \* get_comments: the post's comments, in query order
    comment_dict,      \* get_comments: comment id -> comment (its position)
    prefetched_replies,\* get_comments: each comment's reply list
    root_comments,     \* get_comments: the top-level list
    tpc,               \* get_comments: the statement being executed
    ti,                \* get_comments: position of the running for loop
    output,            \* get_comments: the serialized tree it returns
    auth_user,    \* ids of the rows of auth_user
    feed_post,    \* rows of feed_post: [id, author, created, like_count]
    feed_comment, \* rows of feed_comment: [id, author, post, parent, created,
                  \* like_count]
    feed_like,    \* rows of feed_like: [user, kind, object_id, created]
    post_seq,     \* the primary-key sequence of feed_post
    comment_seq,  \* the primary-key sequence of feed_comment
    quota,        \* the number of rows that may still be created
    response,     \* the leaderboard response, if it is the last one served
    deleted,      \* history: what each DELETE request named and what it had,
                  \* and the likes that have been taken back
    component,    \* which component source is mounted
    post,         \* Post / Comment: the prop the component was mounted with
    localPost,    \* Post / Comment: useState(post)
    isLiking,     \* Post / Comment: useState(false)
    inflight,     \* the component's requests that have not settled yet
    clicks,       \* the number of clicks and submits handled so far
    log,          \* history: the requests sent and settled, in order
    user,         \* AuthProvider: useState(null)
    loading,      \* AuthProvider: useState(true)
    calls,        \* AuthProvider: the calls that have not settled yet
    started,      \* the number of AuthProvider calls started so far
    last,         \* history: what the call that settled last returned
    setter        \* history: the call whose setUser wrote the present user

history == <<startedBy, startedOn, sequential>>

likeVars ==
    <<likes, nextId, like_count, req, startedBy, startedOn, sequential>>

treeVars ==
    <<all_comments, comment_dict, prefetched_replies, root_comments, tpc, ti,
      output>>

storeVars ==
    <<auth_user, feed_post, feed_comment, feed_like, post_seq, comment_seq,
      quota, response, deleted>>

componentVars == <<component, post, localPost, isLiking, inflight, clicks, log>>

authVars == <<user, loading, calls, started, last, setter>>

uiVars == <<componentVars, authVars>>

\* ----------------------------------------------------------------- store
\* Like.Meta.unique_together: the rows of `rows` with this (user, target).
RowsOf(rows, u, t) == {l \in rows : l.user = u /\ l.target = t}

NoResp == [status |-> 0]

\* A request slot.  pc: the statement the request is at; like, created:
\* the result of get_or_create; ins, del: the row id the open transaction
\* has inserted / deleted (0: none); locked, newCount: its uncommitted
\* UPDATE of the target's like_count; loaded: like_count of the object
\* get_object() loaded; resp: the response.  History kept for the
\* properties: observed (what the first get() found), violated (the INSERT
\* hit the unique index), seq (ordinal among the toggles of the target),
\* quiet (no other toggle of the target was in flight at the start).

IdleReq ==
    [pc |-> "idle", user |-> 0, target |-> <<"none", 0>>, like |-> 0,
     created |-> FALSE, ins |-> 0, del |-> 0, locked |-> FALSE,
     loaded |-> 0, newCount |-> 0, resp |-> NoResp,
     observed |-> "none", violated |-> FALSE, seq |-> 0, quiet |-> FALSE]

InFlight(r) == req[r].pc \notin {"idle", "done"}

LikeInit ==
    /\ likes = {}
    /\ nextId = 1
    /\ like_count = [t \in Targets |-> 0]
    /\ req = [r \in Req |-> IdleReq]
    /\ startedBy = [u \in Users, t \in Targets |-> 0]
    /\ startedOn = [t \in Targets |-> 0]
    /\ sequential = [t \in Targets |-> TRUE]

TotalStarted == startedOn[<<"post", 1>>] + startedOn[<<"comment", 1>>]

\* A like request by user u on target t is served in slot r: like(self,
\* request, pk) loads the post with self.get_object(), then get_or_create
\* begins with Like.objects.get(user, content_type, object_id), a SELECT over
\* the committed rows.  A hit returns (like, created = False); a miss goes on
\* to the INSERT.
Get(r, u, t) ==
    /\ ~InFlight(r)
    /\ \A q \in Req : q < r => InFlight(q)
    /\ TotalStarted < MaxToggles
    /\ LET found == RowsOf(likes, u, t)
           fresh == [IdleReq EXCEPT
                       !.user = u, !.target = t,
                       !.loaded = like_count[t],
                       !.seq = startedOn[t] + 1,
                       !.quiet = \A o \in Req \ {r} :
                                    ~(InFlight(o) /\ req[o].target = t)]
       IN  IF found # {}
           THEN \E l \in found :
                  req' = [req EXCEPT ![r] =
                            [fresh EXCEPT !.pc = "delete", !.like = l.id,
                                          !.observed = "liked"]]
           ELSE req' = [req EXCEPT ![r] =
                          [fresh EXCEPT !.pc = "insert",
                                        !.observed = "notliked"]]
    /\ startedBy' = [startedBy EXCEPT ![u, t] = @ + 1]
    /\ startedOn' = [startedOn EXCEPT ![t] = @ + 1]
    /\ sequential' = [sequential EXCEPT ![t] =
                        @ /\ \A o \in Req \ {r} :
                                ~(InFlight(o) /\ req[o].target = t)]
    /\ UNCHANGED <<likes, nextId, like_count, treeVars, storeVars, uiVars>>

\* The unique index on (user, content_type, object_id): an INSERT is refused
\* when a committed row with the same key exists.
NoUniqueConstraint(u, t) == FALSE
UniqueViolation(u, t) == RowsOf(likes, u, t) # {}

\* An INSERT of key (u, t) by r waits while another open transaction holds an
\* uncommitted row with that key, or an uncommitted delete of such a row.
InsertWaits(r, u, t) ==
    \E o \in Req \ {r} :
        /\ InFlight(o)
        /\ req[o].user = u /\ req[o].target = t
        /\ (req[o].ins # 0 \/ req[o].del # 0)

\* The create half of get_or_create: INSERT INTO feed_like.  On success the
\* row is the transaction's own until it commits and created = True.  On a
\* unique violation get_or_create rolls its savepoint back and reads again.
Insert(r) ==
    /\ req[r].pc = "insert"
    /\ ~InsertWaits(r, req[r].user, req[r].target)
    /\ IF UniqueViolation(req[r].user, req[r].target)
       THEN /\ req' = [req EXCEPT ![r].pc = "reget", ![r].violated = TRUE]
            /\ UNCHANGED nextId
       ELSE /\ req' = [req EXCEPT ![r].pc = "update", ![r].ins = nextId,
                                  ![r].like = nextId, ![r].created = TRUE]
            /\ nextId' = nextId + 1
    /\ UNCHANGED <<likes, like_count, history, treeVars, storeVars, uiVars>>

\* get_or_create after IntegrityError: get() once more; a row found is
\* returned with created = False, otherwise the IntegrityError is raised to
\* the view, whose except branch answers 409 without touching the store.
Reget(r) ==
    /\ req[r].pc = "reget"
    /\ LET found == RowsOf(likes, req[r].user, req[r].target) IN
         IF found # {}
         THEN \E l \in found :
                req' = [req EXCEPT ![r].pc = "delete", ![r].like = l.id,
                                   ![r].created = FALSE]
         ELSE req' = [req EXCEPT ![r].pc = "commit",
                        ![r].resp = [status |-> 409,
                                     error |-> "Concurrent modification"]]
    /\ UNCHANGED <<likes, nextId, like_count, history, treeVars, storeVars,
                   uiVars>>

\* like.delete(): DELETE FROM feed_like WHERE id = like.id.  It waits for an
\* open transaction that is deleting the same row; a row that is no longer
\* there is no error, the statement deletes nothing.
DeleteKeepsRow(rows, id) == rows
DeleteOfAnyUser(rows, id) ==
    {l \in rows : \A k \in rows : k.id = id => l.target # k.target}
DeleteRow(rows, id) == {l \in rows : l.id # id}

Delete(r) ==
    /\ req[r].pc = "delete"
    /\ ~\E o \in Req \ {r} : InFlight(o) /\ req[o].del = req[r].like
    /\ req' = [req EXCEPT ![r].pc = "update",
                 ![r].del = IF \E l \in likes : l.id = req[r].like
                            THEN req[r].like ELSE 0]
    /\ UNCHANGED <<likes, nextId, like_count, history, treeVars, storeVars,
                   uiVars>>

\* post.like_count = F('like_count') +/- 1: the new value is computed by the
\* store from the column's current value, under the row's lock.
AlwaysIncrement(created) == 1
Delta(created) == IF created THEN 1 ELSE -1

SaveFromLoadedObject(r, d) == req[r].loaded + d
SaveLikeCount(r, d) == like_count[req[r].target] + d

\* The liked flag of the response: True in the created branch, False in the
\* unlike branch.
Liked(created) == created

\* post.save(update_fields=['like_count']): UPDATE of the post's row, which
\* waits for any open transaction that has updated the same row; then
\* post.refresh_from_db() reads the row back (the transaction's own write)
\* and the view builds Response({'liked', 'like_count'}).
Update(r) ==
    /\ req[r].pc = "update"
    /\ ~\E o \in Req \ {r} :
          InFlight(o) /\ req[o].locked /\ req[o].target = req[r].target
    /\ LET n == SaveLikeCount(r, Delta(req[r].created)) IN
         req' = [req EXCEPT ![r].pc = "commit", ![r].locked = TRUE,
                   ![r].newCount = n,
                   ![r].resp = [status |-> 200,
                                liked |-> Liked(req[r].created),
                                like_count |-> n]]
    /\ UNCHANGED <<likes, nextId, like_count, history, treeVars, storeVars,
                   uiVars>>

\* Leaving @transaction.atomic: the transaction's writes become the
\* committed state and its locks are released; the response is sent.
Commit(r) ==
    /\ req[r].pc = "commit"
    /\ likes' = LET kept == IF req[r].del # 0
                            THEN DeleteRow(likes, req[r].del) ELSE likes
                IN  IF req[r].ins # 0
                    THEN kept \cup {[id |-> req[r].ins, user |-> req[r].user,
                                     target |-> req[r].target]}
                    ELSE kept
    /\ like_count' = IF req[r].locked
                     THEN [like_count EXCEPT ![req[r].target] = req[r].newCount]
                     ELSE like_count
    /\ req' = [req EXCEPT ![r].pc = "done", ![r].ins = 0, ![r].del = 0,
                          ![r].locked = FALSE, ![r].like = 0,
                          ![r].newCount = 0]
    /\ UNCHANGED <<nextId, history, treeVars, storeVars, uiVars>>

\* ------------------------------------------------------- comment tree
\* Comment rows of one post as the query returns them (order_by('created')):
\* distinct ids; parent_id is None (0), the id of a comment of the list, or
\* an id no comment of the list has.
CommentLists(n) ==
    {s \in [1..n -> [id : 1..n, parent_id : 0..(n + 1)]] :
        \A i \in 1..n, j \in 1..n : s[i].id = s[j].id => i = j}

Inputs == UNION {CommentLists(n) : n \in 0..MaxComments}

\* No tree is being built.
TreeIdle ==
    /\ all_comments = <<>>
    /\ comment_dict = <<>>
    /\ prefetched_replies = <<>>
    /\ root_comments = <<>>
    /\ tpc = "idle"
    /\ ti = 0
    /\ output = <<>>

\* get_comments(obj) is entered with obj.all_comments.
TreeInit ==
    /\ all_comments \in Inputs
    /\ comment_dict = <<>>
    /\ prefetched_replies = <<>>
    /\ root_comments = <<>>
    /\ tpc = "dict"
    /\ ti = 0
    /\ output = <<>>

\* comment_dict = {comment.id: comment for comment in all_comments}: a later
\* comment with the same id replaces an earlier one.
DictOf(cs) ==
    [k \in {cs[i].id : i \in 1..Len(cs)} |->
        CHOOSE i \in 1..Len(cs) :
            cs[i].id = k /\ \A j \in 1..Len(cs) : cs[j].id = k => j <= i]

BuildDict ==
    /\ tpc = "dict"
    /\ comment_dict' = DictOf(all_comments)
    /\ tpc' = "replies"
    /\ ti' = 1
    /\ UNCHANGED <<all_comments, prefetched_replies, root_comments, output,
                   likeVars, storeVars, uiVars>>

\* for comment in all_comments: comment.prefetched_replies = []
InitReplies ==
    /\ tpc = "replies"
    /\ IF ti <= Len(all_comments)
       THEN /\ prefetched_replies' = Append(prefetched_replies, <<>>)
            /\ ti' = ti + 1
            /\ tpc' = tpc
       ELSE /\ tpc' = "attach"
            /\ ti' = 1
            /\ UNCHANGED prefetched_replies
    /\ UNCHANGED <<all_comments, comment_dict, root_comments, output,
                   likeVars, storeVars, uiVars>>

\* The branch the second loop takes for a comment: parent_id is None, or
\* parent_id in comment_dict, or neither (the comment is left out).
BranchNoMembershipTest(c) ==
    IF c.parent_id = 0 THEN "root" ELSE "reply"
BranchSeenOnly(c) ==
    IF c.parent_id = 0 THEN "root"
    ELSE IF \E j \in 1..(ti - 1) : all_comments[j].id = c.parent_id
         THEN "reply"
    ELSE "skip"
BranchOrphanToRoot(c) ==
    IF c.parent_id = 0 \/ c.parent_id \notin DOMAIN comment_dict THEN "root"
    ELSE "reply"
Branch(c) ==
    IF c.parent_id = 0 THEN "root"
    ELSE IF c.parent_id \in DOMAIN comment_dict THEN "reply"
    ELSE "skip"

\* parent = comment_dict[comment.parent_id]: the comment the id names.
ParentByPosition(c) == c.parent_id
Parent(c) == comment_dict[c.parent_id]

\* list.append(comment): the comment goes to the end of the list.
ListPrepend(list, i) == <<i>> \o list
ListAppend(list, i) == Append(list, i)

\* for comment in all_comments: one iteration of the attaching loop.  A
\* subscript comment_dict[k] with k not a key raises KeyError, which ends
\* get_comments.
Attach ==
    /\ tpc = "attach"
    /\ ti <= Len(all_comments)
    /\ LET c == all_comments[ti]
           b == Branch(c)
           keyError == b = "reply" /\ c.parent_id \notin DOMAIN comment_dict
       IN  /\ root_comments' =
                 IF b = "root" THEN ListAppend(root_comments, ti)
                 ELSE root_comments
           /\ prefetched_replies' =
                 IF b = "reply" /\ ~keyError
                 THEN [prefetched_replies EXCEPT
                         ![Parent(c)] = ListAppend(@, ti)]
                 ELSE prefetched_replies
           /\ tpc' = IF keyError THEN "error" ELSE tpc
    /\ ti' = ti + 1
    /\ UNCHANGED <<all_comments, comment_dict, output, likeVars, storeVars,
                   uiVars>>

\* CommentSerializer: a comment's data with its replies, which are the
\* comments of its prefetched_replies serialized the same way.
RECURSIVE Serialize(_)
Serialize(i) ==
    [id |-> all_comments[i].id,
     replies |-> [j \in 1..Len(prefetched_replies[i]) |->
                    Serialize(prefetched_replies[i][j])]]

\* return CommentSerializer(root_comments, many=True).data
Return ==
    /\ tpc = "attach"
    /\ ti > Len(all_comments)
    /\ output' = [j \in 1..Len(root_comments) |-> Serialize(root_comments[j])]
    /\ tpc' = "done"
    /\ UNCHANGED <<all_comments, comment_dict, prefetched_replies,
                   root_comments, ti, likeVars, storeVars, uiVars>>

TreeNext == BuildDict \/ InitReplies \/ Attach \/ Return

\* ------------------------------------------------------- posts and karma
\* The rows of auth_user, feed_post, feed_comment and feed_like.  A timestamp
\* is a number of hours; the leaderboard is asked for at Now, so a row
\* created at hour 0 lies before the 24-hour window, one created at hour 1 at
\* its start and one created at Now inside it.  A row's created column is
\* set at will, as Like.objects.create(created=...) sets it.
WindowHours == 24
Now == WindowHours + 1
Times == {0, 1, Now}
ContentTimes == {0, Now}
Kinds == {"post", "comment"}

\* The users us are registered and n rows may be created; there is no
\* content and no request.
StoreWith(us, n) ==
    /\ auth_user = us
    /\ feed_post = {}
    /\ feed_comment = {}
    /\ feed_like = {}
    /\ post_seq = 0
    /\ comment_seq = 0
    /\ quota = n
    /\ response = NoResp
    /\ deleted = {}

StoreIdle == StoreWith({}, 0)

PostIds == {p.id : p \in feed_post}
CommentIds == {c.id : c \in feed_comment}
Exists(kind, id) == IF kind = "post" THEN id \in PostIds ELSE id \in CommentIds

\* Post.objects.create(author=u), created set to ts.
CreatePost(u, ts) ==
    /\ quota > 0
    /\ quota' = quota - 1
    /\ post_seq' = post_seq + 1
    /\ feed_post' = feed_post \cup
            {[id |-> post_seq + 1, author |-> u, created |-> ts,
              like_count |-> 0]}
    /\ response' = NoResp
    /\ UNCHANGED <<auth_user, feed_comment, feed_like, comment_seq, deleted,
                   likeVars, treeVars, uiVars>>

\* A Comment row by u on post p, a reply to comment par of that post or
\* (par = 0) to none.
CreateComment(u, p, par, ts) ==
    /\ quota > 0
    /\ quota' = quota - 1
    /\ p \in PostIds
    /\ par # 0 => \E c \in feed_comment : c.id = par /\ c.post = p
    /\ comment_seq' = comment_seq + 1
    /\ feed_comment' = feed_comment \cup
            {[id |-> comment_seq + 1, author |-> u, post |-> p,
              parent |-> par, created |-> ts, like_count |-> 0]}
    /\ response' = NoResp
    /\ UNCHANGED <<auth_user, feed_post, feed_like, post_seq, deleted,
                   likeVars, treeVars, uiVars>>

\* A Like row of u for an existing post or comment, created set to ts;
\* unique_together admits one row per (user, content_type, object_id).
CreateLike(u, kind, id, ts) ==
    /\ quota > 0
    /\ quota' = quota - 1
    /\ Exists(kind, id)
    /\ ~\E l \in feed_like :
            l.user = u /\ l.kind = kind /\ l.object_id = id
    /\ feed_like' = feed_like \cup
            {[user |-> u, kind |-> kind, object_id |-> id, created |-> ts]}
    /\ response' = NoResp
    /\ UNCHANGED <<auth_user, feed_post, feed_comment, post_seq, comment_seq,
                   deleted, likeVars, treeVars, uiVars>>

\* ------------------------------------------------------------ leaderboard
\* twenty_four_hours_ago = timezone.now() - timedelta(hours=24)
WindowStart(now) == now - WindowHours

\* created__gte=twenty_four_hours_ago
CreatedAfter(ts, now) == ts > WindowStart(now)
CreatedGte(ts, now) == ts >= WindowStart(now)

\* Like.objects.filter(content_type=..., created__gte=...): the Like rows of
\* the kind inside the window.
LikesInWindow(kind, now) ==
    {l \in feed_like : l.kind = kind /\ CreatedGte(l.created, now)}

\* The content rows of the kind, by id.
Content(kind) == IF kind = "post" THEN feed_post ELSE feed_comment

\* .values('object_id') of the subquery: the ids the IN tests against.
LikedByContentDate(kind, now) ==
    {l.object_id : l \in {l \in feed_like : l.kind = kind}} \cap
    {x.id : x \in {x \in Content(kind) : CreatedGte(x.created, now)}}
LikedIds(kind, now) == {l.object_id : l \in LikesInWindow(kind, now)}

\* auth_user LEFT JOIN feed_post LEFT JOIN feed_comment for user u: one row
\* per pair of a post and a comment of u, NULL (0) where u has none.
OrNull(ids) == IF ids = {} THEN {0} ELSE ids
JoinRows(u) ==
    [post : OrNull({p.id : p \in {p \in feed_post : p.author = u}}),
     comment : OrNull({c.id : c \in {c \in feed_comment : c.author = u}})]

\* Count(column, filter=Q(column__in=subquery), distinct=True) over the rows
\* of one user: the number of distinct ids of the column that pass the filter.
CountRows(ids, kind, now) ==
    LET n[i \in 1..Len(ids)] ==
            IF ids[i] \in LikedIds(kind, now) THEN 1 ELSE 0
        sum[i \in 0..Len(ids)] == IF i = 0 THEN 0 ELSE sum[i - 1] + n[i]
    IN  sum[Len(ids)]
CountPerLike(ids, kind, now) ==
    Cardinality({l \in LikesInWindow(kind, now) :
                    \E i \in 1..Len(ids) : ids[i] = l.object_id})
SumLikeCount(ids, kind, now) ==
    LET liked == {ids[i] : i \in 1..Len(ids)} \cap LikedIds(kind, now)
        sum[T \in SUBSET liked] ==
            IF T = {} THEN 0
            ELSE LET k == CHOOSE k \in T : TRUE
                 IN  (CHOOSE x \in Content(kind) : x.id = k).like_count
                        + sum[T \ {k}]
    IN  sum[liked]
CountDistinct(ids, kind, now) ==
    Cardinality({ids[i] : i \in 1..Len(ids)} \cap LikedIds(kind, now))

\* The values of a column over the joined rows of u, one per row.
RECURSIVE ColumnOf(_, _)
ColumnOf(rows, col) ==
    IF rows = {} THEN <<>>
    ELSE LET r == CHOOSE r \in rows : TRUE
         IN  <<IF col = "post" THEN r.post ELSE r.comment>>
                \o ColumnOf(rows \ {r}, col)

PostWeight == 5
post_karma(u, now) ==
    CountDistinct(ColumnOf(JoinRows(u), "post"), "post", now) * PostWeight
comment_karma(u, now) ==
    CountDistinct(ColumnOf(JoinRows(u), "comment"), "comment", now)
total_karma(u, now) == post_karma(u, now) + comment_karma(u, now)

\* .filter(total_karma__gt=0)
KarmaGte0(k) == k >= 0
KarmaGt0(k) == k > 0

\* User.objects.annotate(...): one row per user, with the user's karma.
Annotated(now) ==
    {[user_id |-> u, karma |-> total_karma(u, now)] : u \in auth_user}

\* .order_by('-total_karma'): every sequence of the rows in which karma
\* never increases.  The query names no second key, so the database returns
\* rows of equal karma in an order of its choosing.
RECURSIVE OrderBy(_)
OrderBy(rows) ==
    IF rows = {} THEN {<<>>}
    ELSE LET top == {r \in rows : \A q \in rows : r.karma >= q.karma}
         IN  UNION {{<<r>> \o s : s \in OrderBy(rows \ {r})} : r \in top}

\* [:5]
TopN == 5
SliceNone(s) == s
Slice(s) == IF Len(s) <= TopN THEN s ELSE SubSeq(s, 1, TopN)

ListResyncing(now) ==
    /\ response = NoResp
    /\ response' \in
          {[status |-> 200, now |-> now, data |-> Slice(s)] :
              s \in OrderBy({r \in Annotated(now) : KarmaGt0(r.karma)})}
    /\ feed_post' =
          {[p EXCEPT !.like_count =
                Cardinality({l \in feed_like :
                    l.kind = "post" /\ l.object_id = p.id})] :
              p \in feed_post}
    /\ UNCHANGED <<auth_user, feed_comment, feed_like, post_seq,
                   comment_seq, quota, deleted, likeVars, treeVars, uiVars>>

\* list(request), served at hour now; the store is asked once between two
\* changes of it.
List(now) ==
    /\ response = NoResp
    /\ response' \in
          {[status |-> 200, now |-> now, data |-> Slice(s)] :
              s \in OrderBy({r \in Annotated(now) : KarmaGt0(r.karma)})}
    /\ UNCHANGED <<auth_user, feed_post, feed_comment, feed_like, post_seq,
                   comment_seq, quota, deleted, likeVars, treeVars, uiVars>>

\* ---------------------------------------------------------------- delete
\* post = ForeignKey(Post, on_delete=CASCADE): the comments on post p.
CommentsKept(p) == {}
CommentsOn(p) == {c.id : c \in {c \in feed_comment : c.post = p}}

\* parent = ForeignKey('self', on_delete=CASCADE): the replies to the
\* comments ids.
RepliesTo(ids) == {c.id : c \in {c \in feed_comment : c.parent \in ids}}

\* The comments deleted with the comments ids: their replies, the replies to
\* those, and so on.
CollectOnce(ids) == ids \cup RepliesTo(ids)
RECURSIVE Collect(_)
Collect(ids) ==
    IF RepliesTo(ids) \subseteq ids THEN ids
    ELSE Collect(ids \cup RepliesTo(ids))

\* The Like rows for the posts or comments ids, deleted with them.
LikesFor(kind, ids) ==
    {l \in feed_like : l.kind = kind /\ l.object_id \in ids}

\* Comment c is a reply, at any depth, to comment k.
RECURSIVE IsBelow(_, _)
IsBelow(c, k) ==
    /\ c.parent # 0
    /\ \/ c.parent = k
       \/ \E up \in feed_comment : up.id = c.parent /\ IsBelow(up, k)

\* DELETE /posts/p/
DeletePost(p) ==
    /\ p \in PostIds
    /\ LET gone == Collect(CommentsOn(p))
       IN  /\ feed_post' = {q \in feed_post : q.id # p}
           /\ feed_comment' = {c \in feed_comment : c.id \notin gone}
           /\ feed_like' = feed_like \
                  (LikesFor("post", {p}) \cup LikesFor("comment", gone))
    /\ deleted' = deleted \cup
            {[kind |-> "post", id |-> p,
              under |-> {c \in feed_comment : c.post = p},
              likes |-> Cardinality({l \in feed_like :
                            l.kind = "post" /\ l.object_id = p})]}
    /\ response' = NoResp
    /\ UNCHANGED <<auth_user, post_seq, comment_seq, quota, likeVars,
                   treeVars, uiVars>>

\* DELETE /comments/k/
DeleteComment(k) ==
    /\ k \in CommentIds
    /\ LET gone == Collect({k})
       IN  /\ feed_comment' = {c \in feed_comment : c.id \notin gone}
           /\ feed_like' = feed_like \ LikesFor("comment", gone)
    /\ deleted' = deleted \cup
            {[kind |-> "comment", id |-> k,
              under |-> {c \in feed_comment : IsBelow(c, k)},
              likes |-> Cardinality({l \in feed_like :
                            l.kind = "comment" /\ l.object_id = k})]}
    /\ response' = NoResp
    /\ UNCHANGED <<auth_user, feed_post, post_seq, comment_seq, quota,
                   likeVars, treeVars, uiVars>>

\* ------------------------------------------------------------------ feed
\* The rows with the like_count of item id of the kind changed by d.
Counted(rows, id, d) ==
    {IF x.id = id THEN [x EXCEPT !.like_count = @ + d] ELSE x : x \in rows}

\* like.delete(): the Like rows without that of user u for the item.
UnlikeKeepsRow(u, kind, id) == feed_like
Unlike(u, kind, id) ==
    {l \in feed_like : ~(l.user = u /\ l.kind = kind /\ l.object_id = id)}

\* The like view served for user u on an existing post or comment at hour
\* ts, with no other request on that item in flight: get_or_create finds the
\* user's Like row, which is deleted and like_count decreased, or creates it
\* and like_count is increased.
Toggle(u, kind, id, ts) ==
    /\ quota > 0
    /\ quota' = quota - 1
    /\ Exists(kind, id)
    /\ LET mine == {l \in feed_like :
                        l.user = u /\ l.kind = kind /\ l.object_id = id}
           d == IF mine = {} THEN 1 ELSE -1
       IN  /\ feed_like' =
                 IF mine = {}
                 THEN feed_like \cup {[user |-> u, kind |-> kind,
                                       object_id |-> id, created |-> ts]}
                 ELSE Unlike(u, kind, id)
           /\ feed_post' = IF kind = "post" THEN Counted(feed_post, id, d)
                           ELSE feed_post
           /\ feed_comment' = IF kind = "comment"
                              THEN Counted(feed_comment, id, d)
                              ELSE feed_comment
           /\ deleted' =
                 LET unliked == [kind |-> "like", of |-> kind, id |-> id,
                                 user |-> u]
                 IN  IF mine = {} THEN deleted \ {unliked}
                     ELSE deleted \cup {unliked}
    /\ response' = NoResp
    /\ UNCHANGED <<auth_user, post_seq, comment_seq, likeVars, treeVars,
                   uiVars>>

\* The like_count of a post or comment is an integer column of its own:
\* the item is stored with like_count n, all else equal.
SetLikeCount(kind, id, n) ==
    /\ Exists(kind, id)
    /\ feed_post' = IF kind = "post"
                    THEN {IF x.id = id THEN [x EXCEPT !.like_count = n]
                          ELSE x : x \in feed_post}
                    ELSE feed_post
    /\ feed_comment' = IF kind = "comment"
                       THEN {IF x.id = id THEN [x EXCEPT !.like_count = n]
                             ELSE x : x \in feed_comment}
                       ELSE feed_comment
    /\ UNCHANGED <<auth_user, feed_like, post_seq, comment_seq, quota,
                   response, deleted, likeVars, treeVars, uiVars>>

\* Comment.objects.filter(post=instance).order_by('created'): every sequence
\* of the comments of post p in which created never decreases.
RECURSIVE OrderByCreated(_)
OrderByCreated(rows) ==
    IF rows = {} THEN {<<>>}
    ELSE LET first == {r \in rows : \A q \in rows : r.created <= q.created}
         IN  UNION {{<<[id |-> r.id, parent_id |-> r.parent]>> \o s :
                        s \in OrderByCreated(rows \ {r})} : r \in first}

\* retrieve(request): the post's comments are read into instance.all_comments
\* and the serializer enters get_comments.
Retrieve(p) ==
    /\ tpc \in {"idle", "done"}
    /\ p \in PostIds
    /\ all_comments' \in OrderByCreated({c \in feed_comment : c.post = p})
    /\ comment_dict' = <<>>
    /\ prefetched_replies' = <<>>
    /\ root_comments' = <<>>
    /\ tpc' = "dict"
    /\ ti' = 0
    /\ output' = <<>>
    /\ response' = NoResp
    /\ UNCHANGED <<auth_user, feed_post, feed_comment, feed_like, post_seq,
                   comment_seq, quota, deleted, likeVars, uiVars>>

\* ------------------------------------------------------------- auth state
\* useState(null): no user.
Null == 0

\* value: !!user
isAuthenticated == user # Null

NoCall ==
    [op |-> "none", success |-> TRUE, error |-> <<>>, before |-> Null,
     after |-> Null]

\* Nothing is mounted.
UiIdle ==
    /\ component = "none"
    /\ post = [like_count |-> 0, comment_count |-> 0]
    /\ localPost = post
    /\ isLiking = FALSE
    /\ inflight = {}
    /\ clicks = 0
    /\ log = <<>>
    /\ user = Null
    /\ loading = FALSE
    /\ calls = {}
    /\ started = 0
    /\ last = NoCall
    /\ setter = "none"

\* ------------------------------------------------------------- components
MaxClicks == 3
MaxShown == 2

\* The Post component as first written, the Post component as rewritten with
\* useAuth, and the Comment component with useAuth.
Components == {"Post.jsx", "part_003", "Comment.jsx"}
Posts == {"Post.jsx", "part_003"}
ShownCounts == 0..MaxShown

\* function Post({ post, ... }): useState(post), useState(false), with the
\* AuthProvider already settled on user u.
Mount(c, p, u) ==
    /\ component = c
    /\ post = p
    /\ localPost = p
    /\ isLiking = FALSE
    /\ inflight = {}
    /\ clicks = 0
    /\ log = <<>>
    /\ user = u
    /\ loading = FALSE
    /\ calls = {}
    /\ started = 0
    /\ last = NoCall
    /\ setter = IF u = Null THEN "none" ELSE "checkAuth"

\* The first statement of handleLike: the condition of its early return.
LikeReturns(c) ==
    IF c = "Post.jsx" THEN isLiking ELSE isLiking \/ ~isAuthenticated

\* The first statement of handleComment, on a form that has text in it.
CommentReturns(c) ==
    IF c = "Post.jsx" THEN FALSE ELSE ~isAuthenticated

\* A request as it leaves the handler: the handler's closure holds the
\* localPost of the render the click happened in.
Request(op) ==
    [op |-> op, id |-> clicks + 1, base |-> localPost,
     auth |-> isAuthenticated]

Sent(op) == [ev |-> "send", op |-> op, ok |-> TRUE, value |-> 0]
Settled(op, ok, v) == [ev |-> "done", op |-> op, ok |-> ok, value |-> v]

\* handleLike up to its await: the early return, setIsLiking(true) and the
\* call of api.likePost / api.likeComment.
handleLike ==
    /\ component \in Components
    /\ clicks < MaxClicks
    /\ clicks' = clicks + 1
    /\ IF LikeReturns(component)
          THEN UNCHANGED <<isLiking, inflight, log>>
          ELSE /\ isLiking' = TRUE
               /\ inflight' = inflight \cup {Request("like")}
               /\ log' = Append(log, Sent("like"))
    /\ UNCHANGED <<component, post, localPost, authVars, likeVars, treeVars,
                   storeVars>>

\* What the like request settles with: a response carrying like_count, or a
\* rejection.
LikeAnswers ==
    {[ok |-> TRUE, like_count |-> v] : v \in ShownCounts}
        \cup {[ok |-> FALSE, like_count |-> 0]}

\* handleLike from its await on: setLocalPost({ ...localPost, like_count })
\* in the try, nothing but logging in the catch, setIsLiking(false) in the
\* finally.
likeSettled(r, a) ==
    /\ r \in inflight
    /\ r.op = "like"
    /\ localPost' = IF a.ok
                      THEN [r.base EXCEPT !.like_count = a.like_count]
                      ELSE localPost
    /\ isLiking' = FALSE
    /\ inflight' = inflight \ {r}
    /\ log' = Append(log, Settled("like", a.ok, a.like_count))
    /\ UNCHANGED <<component, post, clicks, authVars, likeVars, treeVars,
                   storeVars>>

\* handleComment up to its await: the early return and the call of
\* api.createComment.
handleComment ==
    /\ component \in Posts
    /\ clicks < MaxClicks
    /\ clicks' = clicks + 1
    /\ IF CommentReturns(component)
          THEN UNCHANGED <<inflight, log>>
          ELSE /\ inflight' = inflight \cup {Request("comment")}
               /\ log' = Append(log, Sent("comment"))
    /\ UNCHANGED <<component, post, localPost, isLiking, authVars, likeVars,
                   treeVars, storeVars>>

\* handleComment from its await on: setLocalPost({ ...localPost,
\* comment_count: (localPost.comment_count || 0) + 1 }) in the try, nothing
\* but logging in the catch.
commentSettled(r, ok) ==
    /\ r \in inflight
    /\ r.op = "comment"
    /\ localPost' = IF ok
                      THEN [r.base EXCEPT
                               !.comment_count = r.base.comment_count + 1]
                      ELSE localPost
    /\ inflight' = inflight \ {r}
    /\ log' = Append(log, Settled("comment", ok, 0))
    /\ UNCHANGED <<component, post, isLiking, clicks, authVars, likeVars,
                   treeVars, storeVars>>

\* ----------------------------------------------------------- AuthProvider
MaxCalls == 3

\* A text is the sequence of its pieces; '' is the empty sequence.
RECURSIVE Join(_, _)
\* Array.prototype.join
Join(texts, sep) ==
    IF texts = <<>> THEN <<>>
    ELSE IF Len(texts) = 1 THEN texts[1]
    ELSE texts[1] \o <<sep>> \o Join(Tail(texts), sep)

\* a || b on two texts
Or(a, b) == IF a # <<>> THEN a ELSE b

\* The bodies of the answers that are not ok, as lists of (key, values): the
\* body that is not JSON is read as {}.
Bodies ==
    {<<>>,
     << <<"detail", <<"No active account found">> >> >>,
     << <<"username", <<"already exists">> >>,
        <<"password", <<"too short", "too common">> >> >>}

\* error.detail
Detail(body) ==
    LET hits == {i \in DOMAIN body : body[i][1] = "detail"}
    IN  IF hits = {} THEN <<>> ELSE body[CHOOSE i \in hits : TRUE][2]

\* handleResponse on an answer that is not ok: what it throws.
handleResponse(body) ==
    [response |-> TRUE, data |-> body,
     message |-> Or(Detail(body), <<"Request failed">>)]

\* What an api call rejects with: what handleResponse throws, or the
\* TypeError of a fetch that got no answer.
Errors ==
    {handleResponse(b) : b \in Bodies}
        \cup {[response |-> FALSE, data |-> <<>>,
               message |-> <<"Failed to fetch">>]}

\* What an api call settles with.
Answers ==
    {[ok |-> TRUE, user |-> u, error |-> handleResponse(<<>>)] : u \in Users}
        \cup {[ok |-> FALSE, user |-> Null, error |-> e] : e \in Errors}

\* login's catch: error.message || 'Login failed. ...'
loginError(e) ==
    Or(e.message, <<"Login failed. Please check your credentials.">>)

\* `${key}: ${Array.isArray(value) ? value.join(', ') : value}`
Entry(e) ==
    <<e[1], ": ">> \o Join([i \in 1..Len(e[2]) |-> <<e[2][i]>>], ", ")

\* register's catch: the entries of error.response.data joined by newlines
\* when there is such an object, else error.message || 'Registration
\* failed. ...'
registerError(e) ==
    IF e.response
       THEN Join([i \in 1..Len(e.data) |-> Entry(e.data[i])], "\n")
       ELSE Or(e.message, <<"Registration failed. Please try again.">>)

Call(op) == [op |-> op, id |-> started + 1]

Returned(op, ok, err, after) ==
    [op |-> op, success |-> ok, error |-> err, before |-> user,
     after |-> after]

\* A call of one of the context's functions, up to its await.
Start(op) ==
    /\ started < MaxCalls
    /\ started' = started + 1
    /\ calls' = calls \cup {Call(op)}
    /\ UNCHANGED <<user, loading, last, setter, componentVars, likeVars,
                   treeVars, storeVars>>

\* A call leaves its await.
Finish(c, op) ==
    /\ c \in calls
    /\ c.op = op
    /\ calls' = calls \ {c}
    /\ UNCHANGED <<started, componentVars, likeVars, treeVars, storeVars>>

\* useEffect(() => { checkAuth(); }, []) is in flight once the provider is
\* mounted.
AuthMounted ==
    /\ component = "AuthProvider"
    /\ post = [like_count |-> 0, comment_count |-> 0]
    /\ localPost = post
    /\ isLiking = FALSE
    /\ inflight = {}
    /\ clicks = 0
    /\ log = <<>>
    /\ user = Null
    /\ loading = TRUE
    /\ calls = {[op |-> "checkAuth", id |-> 0]}
    /\ started = 0
    /\ last = NoCall
    /\ setter = "none"

\* checkAuth from its await on: setUser(userData) in the try, setUser(null)
\* in the catch, then setLoading(false).
checkAuthSettled(c, a) ==
    /\ Finish(c, "checkAuth")
    /\ user' = IF a.ok THEN a.user ELSE Null
    /\ setter' = "checkAuth"
    /\ loading' = FALSE
    /\ last' = Returned("checkAuth", a.ok, <<>>, user')

login == Start("login")

\* login from its await on: setUser(data.user) and { success: true }, or the
\* catch's { success: false, error }.
loginSettled(c, a) ==
    /\ Finish(c, "login")
    /\ user' = IF a.ok THEN a.user ELSE user
    /\ setter' = IF a.ok THEN "login" ELSE setter
    /\ last' = Returned("login", a.ok,
                        IF a.ok THEN <<>> ELSE loginError(a.error), user')
    /\ UNCHANGED loading

register == Start("register")

\* register from its await on: setUser(data.user) and { success: true }, or
\* the catch's { success: false, error: errorMessage }.
registerSettled(c, a) ==
    /\ Finish(c, "register")
    /\ user' = IF a.ok THEN a.user ELSE user
    /\ setter' = IF a.ok THEN "register" ELSE setter
    /\ last' = Returned("register", a.ok,
                        IF a.ok THEN <<>> ELSE registerError(a.error), user')
    /\ UNCHANGED loading

logout == Start("logout")

\* logout from its await on: the catch only logs, and setUser(null) follows
\* the try statement.
logoutSettled(c, ok) ==
    /\ Finish(c, "logout")
    /\ user' = Null
    /\ setter' = "logout"
    /\ last' = Returned("logout", ok, <<>>, user')
    /\ UNCHANGED loading

\* ---------------------------------------------------------- specifications
vars == <<likeVars, treeVars, storeVars, uiVars>>

Init == LikeInit /\ TreeIdle /\ StoreIdle /\ UiIdle

Next ==
    \/ \E r \in Req, u \in Users, t \in Targets : Get(r, u, t)
    \/ \E r \in Req : Insert(r)
    \/ \E r \in Req : Reget(r)
    \/ \E r \in Req : Delete(r)
    \/ \E r \in Req : Update(r)
    \/ \E r \in Req : Commit(r)

\* The like requests served by the views, over an initially empty Like table.
Spec == Init /\ [][Next]_vars

\* One run of get_comments on any list of comments within the bound.
InitTree == LikeInit /\ TreeInit /\ StoreIdle /\ UiIdle

SpecTree == InitTree /\ [][TreeNext]_vars

\* get_comments runs on: a statement that can be executed is executed.
SpecTreeRuns == SpecTree /\ WF_vars(TreeNext)

\* The hour at which the leaderboard is asked for.
Asked == {Now}

\* Posts, top-level comments and likes of two users with any timestamps, and
\* the leaderboard over them.
InitKarma == LikeInit /\ TreeIdle /\ StoreWith({1, 2}, MaxRows) /\ UiIdle

NextKarma ==
    \/ \E u \in auth_user, ts \in ContentTimes : CreatePost(u, ts)
    \/ \E u \in auth_user, p \in PostIds, ts \in ContentTimes :
            CreateComment(u, p, 0, ts)
    \/ \E u \in auth_user, kind \in Kinds, id \in 1..MaxRows, ts \in Times :
            CreateLike(u, kind, id, ts)
    \/ \E now \in Asked : List(now)

SpecKarma == InitKarma /\ [][NextKarma]_vars

\* The posts, comments and replies of user 1, the likes of two users for
\* them, and their deletion.
InitDelete == LikeInit /\ TreeIdle /\ StoreWith({1, 2}, MaxItems) /\ UiIdle

NextDelete ==
    \/ CreatePost(1, 0)
    \/ \E p \in PostIds, par \in {0} \cup CommentIds :
            CreateComment(1, p, par, 0)
    \/ \E u \in auth_user, kind \in Kinds, id \in 1..MaxItems :
            CreateLike(u, kind, id, 0)
    \/ \E p \in PostIds : DeletePost(p)
    \/ \E k \in CommentIds : DeleteComment(k)

SpecDelete == InitDelete /\ [][NextDelete]_vars

\* The values like_count is set to.
Counts == {0, 1}

\* A feed of two users: posts and comments of user 1, like requests served
\* one at a time, like_count columns of any value, and the leaderboard and
\* the comment tree of a post asked for in between.
InitFeed == LikeInit /\ TreeIdle /\ StoreWith({1, 2}, MaxFeed) /\ UiIdle

NextFeed ==
    \/ CreatePost(1, 0)
    \/ \E p \in PostIds, par \in {0} \cup CommentIds :
            CreateComment(1, p, par, 0)
    \/ \E u \in auth_user, kind \in Kinds, id \in 1..MaxFeed :
            Toggle(u, kind, id, Now)
    \/ \E kind \in Kinds, id \in 1..MaxFeed, n \in Counts :
            SetLikeCount(kind, id, n)
    \/ \E now \in Asked : List(now)
    \/ \E p \in PostIds : Retrieve(p)
    \/ BuildDict
    \/ InitReplies
    \/ Attach
    \/ Return

SpecFeed == InitFeed /\ [][NextFeed]_vars

\* What of a user's content has been liked in a store of InitBoard.
Profiles == {"none", "post", "comment"}

\* Every one of NumAuthors users has written post and comment number its own
\* id, and user 1 has liked, inside the window, the post of some of them and
\* the comment of some others.
InitBoard ==
    /\ LikeInit
    /\ TreeIdle
    /\ UiIdle
    /\ auth_user = 1..NumAuthors
    /\ feed_post = {[id |-> u, author |-> u, created |-> 0,
                     like_count |-> 0] : u \in 1..NumAuthors}
    /\ feed_comment = {[id |-> u, author |-> u, post |-> u, parent |-> 0,
                        created |-> 0, like_count |-> 0] :
                            u \in 1..NumAuthors}
    /\ \E f \in [1..NumAuthors -> Profiles] :
          feed_like = {[user |-> 1, kind |-> f[u], object_id |-> u,
                        created |-> Now] :
                            u \in {v \in 1..NumAuthors : f[v] # "none"}}
    /\ post_seq = NumAuthors
    /\ comment_seq = NumAuthors
    /\ quota = 0
    /\ response = NoResp
    /\ deleted = {}

NextBoard == \E now \in Asked : List(now)

\* The leaderboard over more users than it has places.
SpecBoard == InitBoard /\ [][NextBoard]_vars

\* A mounted Post or Comment, clicked by a visitor who is or is not logged in.
InitUI ==
    /\ LikeInit
    /\ TreeIdle
    /\ StoreIdle
    /\ \E c \in Components, n \in ShownCounts, u \in {Null, 1} :
          Mount(c, [like_count |-> n, comment_count |-> 0], u)

NextUI ==
    \/ handleLike
    \/ \E r \in inflight, a \in LikeAnswers : likeSettled(r, a)
    \/ handleComment
    \/ \E r \in inflight, ok \in BOOLEAN : commentSettled(r, ok)

SpecUI == InitUI /\ [][NextUI]_vars

\* The mounted AuthProvider and the calls of its functions.
InitAuth == LikeInit /\ TreeIdle /\ StoreIdle /\ AuthMounted

NextAuth ==
    \/ \E c \in calls, a \in Answers : checkAuthSettled(c, a)
    \/ login
    \/ \E c \in calls, a \in Answers : loginSettled(c, a)
    \/ register
    \/ \E c \in calls, a \in Answers : registerSettled(c, a)
    \/ logout
    \/ \E c \in calls, ok \in BOOLEAN : logoutSettled(c, ok)

SpecAuth == InitAuth /\ [][NextAuth]_vars

TypeOK ==
    /\ \A l \in likes : l.user \in Users /\ l.target \in Targets
    /\ \A r \in Req : req[r].pc \in {"idle", "insert", "reget", "delete",
                        "update", "commit", "done"}

\* ------------------------------------------------------------ like toggle
Done(r) == req[r].pc = "done"
Quiescent(t) == \A r \in Req : ~(InFlight(r) /\ req[r].target = t)
RowsOn(t) == {l \in likes : l.target = t}
\* r was started with no other request on its target in flight, and no
\* request on that target has been started since.
RanAlone(r) ==
    Done(r) /\ req[r].quiet /\ req[r].seq = startedOn[req[r].target]

\* C1: in every reachable state the Like store holds at most one row per
\* (user, target kind, target id).
C1_OneLikePerUserTarget ==
    \A l1 \in likes, l2 \in likes :
        (l1.user = l2.user /\ l1.target = l2.target) => l1.id = l2.id

\* A second INSERT of a key has been refused while the first one's row is
\* stored.
C1_Witness ==
    \E r \in Req :
        req[r].violated /\ RowsOf(likes, req[r].user, req[r].target) # {}

\* Two toggles of (u, t) that both found no Like row, the only two toggles
\* ever made on t, both answered.
FirstTimePair(r1, r2) ==
    /\ r1 # r2 /\ Done(r1) /\ Done(r2)
    /\ req[r1].user = req[r2].user /\ req[r1].target = req[r2].target
    /\ req[r1].observed = "notliked" /\ req[r2].observed = "notliked"
    /\ startedOn[req[r1].target] = 2

\* C2: two concurrent first-time toggles of the same (user, target), both
\* begun while no Like row exists, end with exactly one Like row for the
\* pair and like_count incremented by exactly 1.
C2_ConcurrentFirstLikes ==
    \A r1 \in Req, r2 \in Req :
        FirstTimePair(r1, r2) =>
            /\ Cardinality(RowsOf(likes, req[r1].user, req[r1].target)) = 1
            /\ like_count[req[r1].target] = 1

\* Two toggles of (u, t) that both found the Like row, started from a quiet
\* target, the last two toggles made on t, both answered.
UnlikePair(r1, r2) ==
    /\ r1 # r2 /\ Done(r1) /\ Done(r2)
    /\ req[r1].user = req[r2].user /\ req[r1].target = req[r2].target
    /\ req[r1].observed = "liked" /\ req[r2].observed = "liked"
    /\ req[r1].quiet
    /\ req[r1].seq + 1 = req[r2].seq
    /\ req[r2].seq = startedOn[req[r1].target]

\* C3, from the state Liked: two simultaneous toggles of the same (user,
\* target) that both observe Liked leave the pair NotLiked and move the
\* counter by exactly 1; two simultaneous unlikes do not decrement it by 2.
C3_SimultaneousUnlikes ==
    \A r1 \in Req, r2 \in Req :
        UnlikePair(r1, r2) =>
            /\ RowsOf(likes, req[r1].user, req[r1].target) = {}
            /\ like_count[req[r1].target] = req[r1].loaded - 1

\* C4: a toggle by u on t run with no concurrent request on t creates the
\* Like row of (u, t) if it was absent and removes it if it was present, and
\* answers liked = (the row now exists) with t's like_count after the
\* adjustment: the old count + 1 on create, - 1 on remove.
C4_SingleToggle ==
    \A r \in Req :
        RanAlone(r) =>
            LET u == req[r].user
                t == req[r].target
                was == req[r].observed = "liked"
                old == req[r].loaded
            IN  /\ req[r].resp.status = 200
                /\ req[r].resp.liked = ~was
                /\ (RowsOf(likes, u, t) # {}) = ~was
                /\ req[r].resp.like_count = IF was THEN old - 1 ELSE old + 1
                /\ like_count[t] = req[r].resp.like_count

\* A toggle that ran alone has removed a Like row.
C4_Witness ==
    \E r \in Req : RanAlone(r) /\ req[r].observed = "liked"

\* C5: from NotLiked, with no other requests on the target, k toggles of
\* (u, t) in sequence leave the pair liked exactly when k is odd; after an
\* even number the counter is back at its original value, and the last
\* response reports that state (two toggles: liked = false, original count).
C5_SequentialToggles ==
    \A u \in Users, t \in Targets :
        LET k == startedBy[u, t] IN
        (sequential[t] /\ Quiescent(t) /\ startedOn[t] = k) =>
            /\ (RowsOf(likes, u, t) # {}) = (k % 2 = 1)
            /\ like_count[t] = k % 2
            /\ \A r \in Req :
                 (Done(r) /\ req[r].target = t /\ req[r].seq = k) =>
                    /\ req[r].resp.status = 200
                    /\ req[r].resp.liked = (k % 2 = 1)
                    /\ req[r].resp.like_count = k % 2

\* The second of two toggles in sequence has answered.
C5_Witness ==
    \E r \in Req :
        LET u == req[r].user
            t == req[r].target
        IN  /\ Done(r) /\ req[r].seq = 2
            /\ sequential[t] /\ startedOn[t] = 2 /\ startedBy[u, t] = 2

\* C6: a toggle whose INSERT hit the uniqueness constraint, because another
\* request created the row first, answers liked = true with the current
\* like_count and not an error response.
C6_LoserReportsLiked ==
    \A r \in Req :
        (Done(r) /\ req[r].violated) =>
            /\ req[r].resp.status = 200
            /\ req[r].resp.liked = TRUE

\* C7: whenever no toggle is in flight, every target's like_count equals
\* the number of Like rows referencing it (initially 0 and no rows).
C7_CounterMatchesRows ==
    (\A r \in Req : ~InFlight(r)) =>
        \A t \in Targets : like_count[t] = Cardinality(RowsOn(t))

\* C8: when distinct users each toggle the same target once, all from
\* NotLiked, like_count ends at the original value plus the number of those
\* users, in every interleaving: no counter update is lost.
C8_NoLostUpdate ==
    \A t \in Targets :
        (Quiescent(t) /\ \A u \in Users : startedBy[u, t] <= 1) =>
            like_count[t] = Cardinality({u \in Users : startedBy[u, t] = 1})

\* Two users' toggles of one target overlapped and both have answered.
C8_Witness ==
    \E r1 \in Req, r2 \in Req :
        /\ Done(r1) /\ Done(r2)
        /\ req[r1].target = req[r2].target /\ req[r1].user # req[r2].user
        /\ req[r1].seq = 1 /\ req[r2].seq = 2 /\ ~req[r2].quiet
        /\ startedOn[req[r1].target] = 2
        /\ like_count[req[r1].target] = 2

\* C24: the like_count of every post and comment is 0 or more in every
\* reachable state.
C24_LikeCountNonNegative == \A t \in Targets : like_count[t] >= 0

\* The Like rows a step adds or removes.
RowsChanged == (likes \ likes') \cup (likes' \ likes)

\* C26: the step that commits a toggle of user u on target t adds or
\* removes no Like row but that of (u, t) and changes no like_count but that
\* of t, no other step of a toggle changes a Like row or a like_count, and
\* none changes a post or a comment.
C26_ToggleFrame ==
    [][ /\ \A r \in Req :
              (req[r].pc = "commit" /\ req'[r].pc = "done") =>
                  /\ \A l \in RowsChanged :
                        l.user = req[r].user /\ l.target = req[r].target
                  /\ \A t \in Targets \ {req[r].target} :
                        like_count'[t] = like_count[t]
        /\ (\A r \in Req : ~(req[r].pc = "commit" /\ req'[r].pc = "done")) =>
              (likes' = likes /\ like_count' = like_count)
        /\ feed_post' = feed_post /\ feed_comment' = feed_comment ]_vars

\* An unlike has been served while the other user's like of the same target
\* and a like of the other target are stored.
C26_Witness ==
    \E r \in Req :
        /\ Done(r)
        /\ req[r].resp = [status |-> 200, liked |-> FALSE,
                          like_count |-> like_count[req[r].target]]
        /\ \E l \in likes : l.user # req[r].user \/ l.target # req[r].target

\* ----------------------------------------------------------- comment tree
Positions == 1..Len(all_comments)
Ids == {all_comments[i].id : i \in Positions}
IsRoot(i) == all_comments[i].parent_id = 0
\* A comment whose parent id is the id of no comment of the input.
IsOrphan(i) == ~IsRoot(i) /\ all_comments[i].parent_id \notin Ids

\* The id reached from comment id k by following parent ids n times; 0 once
\* a root has been passed.
RECURSIVE Up(_, _)
Up(k, n) ==
    IF k = 0 \/ k \notin Ids THEN 0
    ELSE IF n = 0 THEN k
    ELSE Up((CHOOSE c \in {all_comments[i] : i \in Positions} :
                c.id = k).parent_id, n - 1)

\* Every non-null parent id is in the input and no comment is its own
\* ancestor.
IsForest ==
    /\ \A i \in Positions : ~IsOrphan(i)
    /\ \A i \in Positions : Up(all_comments[i].id, Len(all_comments)) = 0

\* How often comment id k appears in a serialized list, at any depth.
RECURSIVE Occurrences(_, _)
Occurrences(nodes, k) ==
    IF nodes = <<>> THEN 0
    ELSE (IF Head(nodes).id = k THEN 1 ELSE 0)
         + Occurrences(Head(nodes).replies, k)
         + Occurrences(Tail(nodes), k)

\* Every node of a serialized list, at any depth.
RECURSIVE NodesOf(_)
NodesOf(nodes) ==
    IF nodes = <<>> THEN {}
    ELSE {Head(nodes)} \cup NodesOf(Head(nodes).replies)
         \cup NodesOf(Tail(nodes))

IdsOf(nodes) == {nodes[j].id : j \in 1..Len(nodes)}

\* C9: for comments that form a forest the top-level list of the output is
\* exactly the comments with null parent, and every other comment appears
\* exactly once in the whole output, in the reply list of the comment its
\* parent id names.
C9_ForestIsRebuilt ==
    (tpc = "done" /\ IsForest) =>
        /\ IdsOf(output) = {all_comments[i].id : i \in {p \in Positions : IsRoot(p)}}
        /\ \A i \in Positions :
             IsRoot(i) => Occurrences(output, all_comments[i].id) = 1
        /\ \A i \in Positions :
             ~IsRoot(i) =>
                /\ Occurrences(output, all_comments[i].id) = 1
                /\ \E node \in NodesOf(output) :
                     /\ node.id = all_comments[i].parent_id
                     /\ all_comments[i].id \in IdsOf(node.replies)

\* A forest with a reply to a reply has been built.
C9_Witness ==
    /\ tpc = "done" /\ IsForest
    /\ \E j \in 1..Len(output) :
         \E k \in 1..Len(output[j].replies) :
            output[j].replies[k].replies # <<>>

\* C10: a comment whose parent id names no comment of the input appears
\* nowhere in the output, neither at root level nor under another comment,
\* and the build raises no error.
C10_OrphanLeftOut ==
    /\ tpc # "error"
    /\ tpc = "done" =>
         \A i \in Positions :
            IsOrphan(i) => Occurrences(output, all_comments[i].id) = 0

\* A list with an orphan and a root has been built.
C10_Witness ==
    /\ tpc = "done"
    /\ \E i \in Positions : IsOrphan(i)
    /\ output # <<>>

\* The position in the input of the comment with id k.
PositionOf(k) == CHOOSE i \in Positions : all_comments[i].id = k

\* The comments of a serialized list are in the order of the input.
InInputOrder(nodes) ==
    \A j \in 1..Len(nodes), k \in 1..Len(nodes) :
        j < k => PositionOf(nodes[j].id) < PositionOf(nodes[k].id)

\* C11: the root list and every comment's reply list of the output keep the
\* relative order of the input: of two siblings, the one that comes first in
\* the creation-ordered input comes first in their list.
C11_SiblingsInInputOrder ==
    tpc = "done" =>
        /\ InInputOrder(output)
        /\ \A node \in NodesOf(output) : InInputOrder(node.replies)

\* A tree has been built in which a comment has two replies, the earlier of
\* them with the larger id: their order is the input's, not the ids'.
C11_Witness ==
    /\ tpc = "done"
    /\ \E node \in NodesOf(output) :
          /\ Len(node.replies) >= 2
          /\ node.replies[1].id > node.replies[2].id

\* The comment at position i is a root or a reply, at any depth, to a root.
ReachesRoot(i) ==
    \E n \in 0..Len(all_comments) :
        LET a == Up(all_comments[i].id, n)
        IN  a # 0 /\ IsRoot(PositionOf(a))

\* C22: a reply that comes before its parent in the input is still in the
\* reply list of that parent in the output (the parent being in the output).
C22_ReplyBeforeParent ==
    tpc = "done" =>
        \A i \in Positions, j \in Positions :
            ( /\ i < j
              /\ all_comments[i].parent_id = all_comments[j].id
              /\ ReachesRoot(j) )
            => \E node \in NodesOf(output) :
                  /\ node.id = all_comments[j].id
                  /\ all_comments[i].id \in IdsOf(node.replies)

\* The tree of an input whose first comment is a reply to a later one has
\* been built, with the reply under its parent.
C22_Witness ==
    /\ tpc = "done"
    /\ \E j \in Positions :
          /\ 1 < j
          /\ all_comments[1].parent_id = all_comments[j].id
          /\ \E node \in NodesOf(output) :
                /\ node.id = all_comments[j].id
                /\ all_comments[1].id \in IdsOf(node.replies)

\* The comment at position i is its own ancestor.
OnCycle(i) ==
    \E n \in 1..Len(all_comments) :
        Up(all_comments[i].id, n) = all_comments[i].id
\* The comment at position i is a reply, at any depth, to an orphan.
UnderOrphan(i) ==
    \E n \in 1..Len(all_comments) :
        LET a == Up(all_comments[i].id, n)
        IN  a # 0 /\ IsOrphan(PositionOf(a))

\* C27: get_comments ends on every input, forest or not, and a comment that
\* is neither a root nor below one (a reply below an orphan, a comment on a
\* cycle of parent ids or below one) is nowhere in the output.
C27_NonForestInputs ==
    /\ <>(tpc = "done")
    /\ [](tpc = "done" =>
            \A i \in Positions :
                ~ReachesRoot(i) => Occurrences(output, all_comments[i].id) = 0)

\* get_comments has ended on an input with a root, with a comment that is its
\* own ancestor and with a reply to it.
C27_Witness ==
    /\ tpc = "done"
    /\ output # <<>>
    /\ \E i \in Positions : OnCycle(i)
    /\ \E i \in Positions : ~OnCycle(i) /\ ~ReachesRoot(i) /\ ~IsOrphan(i)

\* ------------------------------------------------------------ leaderboard
\* The response served last is a leaderboard, asked for at response.now.
Listed == response.status = 200
Entries == {response.data[i] : i \in 1..Len(response.data)}
Appears(u) == \E e \in Entries : e.user_id = u
\* The karma the response reports for u.
Reported(u) == (CHOOSE e \in Entries : e.user_id = u).karma

LikesOn(kind, id) == {l \in feed_like : l.kind = kind /\ l.object_id = id}
\* The item has a Like row of its kind with a timestamp of t or later.
LikedSince(kind, id, t) == \E l \in LikesOn(kind, id) : l.created >= t
PostsBy(u) == {p \in feed_post : p.author = u}
CommentsBy(u) == {c \in feed_comment : c.author = u}
Karma(u, T) ==
    5 * Cardinality({p \in PostsBy(u) : LikedSince("post", p.id, T - 24)})
    + Cardinality({c \in CommentsBy(u) : LikedSince("comment", c.id, T - 24)})
\* No post or comment of u other than the item has a Like row.
OnlyLikedItem(u, kind, id) ==
    /\ \A p \in PostsBy(u) :
          (kind = "post" /\ p.id = id) \/ LikesOn("post", p.id) = {}
    /\ \A c \in CommentsBy(u) :
          (kind = "comment" /\ c.id = id) \/ LikesOn("comment", c.id) = {}

C13_FilterOnLikeTimestamp ==
    Listed =>
        \A p \in feed_post :
            OnlyLikedItem(p.author, "post", p.id) =>
                /\ ( /\ p.created < response.now - 24
                     /\ Cardinality(LikesOn("post", p.id)) = 1
                     /\ LikedSince("post", p.id, response.now - 24) )
                   => (Appears(p.author) /\ Reported(p.author) = 5)
                /\ ( /\ p.created >= response.now - 24
                     /\ LikesOn("post", p.id) # {}
                     /\ ~LikedSince("post", p.id, response.now - 24) )
                   => ~Appears(p.author)

\* An author is reported with 5 for a post older than the window whose one
\* like is inside it.
C13_Witness ==
    /\ Listed
    /\ \E p \in feed_post :
          /\ p.created < response.now - 24
          /\ Cardinality(LikesOn("post", p.id)) = 1
          /\ LikedSince("post", p.id, response.now - 24)
          /\ Appears(p.author) /\ Reported(p.author) = 5

AuthorOf(kind, id) == (CHOOSE x \in Content(kind) : x.id = id).author

\* C15: a like made exactly 24 hours before the leaderboard is asked for is
\* inside the window: the author of the liked item is on the leaderboard,
\* with 5 or more for a post and 1 or more for a comment.
C15_BoundaryLikeCounts ==
    Listed =>
        \A l \in feed_like :
            l.created = response.now - 24 =>
                /\ Appears(AuthorOf(l.kind, l.object_id))
                /\ Reported(AuthorOf(l.kind, l.object_id)) >=
                        IF l.kind = "post" THEN 5 ELSE 1

\* The only like of the store was made exactly 24 hours before, and the
\* leaderboard holds the author of what it is for.
C15_Witness ==
    /\ Listed
    /\ \E l \in feed_like :
          /\ feed_like = {l}
          /\ l.created = response.now - 24
          /\ Appears(AuthorOf(l.kind, l.object_id))

\* C16: the leaderboard has at most 5 entries, all of them with karma above
\* 0, in an order in which karma never increases, and no user left out has
\* more karma than a user in it.
C16_TopFive ==
    Listed =>
        /\ Len(response.data) <= 5
        /\ \A e \in Entries : e.karma > 0
        /\ \A i \in 1..Len(response.data), j \in 1..Len(response.data) :
              i < j => response.data[i].karma >= response.data[j].karma
        /\ \A u \in auth_user : ~Appears(u) =>
              \A e \in Entries : Karma(u, response.now) <= e.karma

\* Six users or more have karma, of two different amounts, the leaderboard
\* has five entries, and a user with karma is left out.
C16_Witness ==
    /\ Listed
    /\ Len(response.data) = 5
    /\ response.data[1].karma > response.data[5].karma
    /\ \E u \in auth_user : ~Appears(u) /\ Karma(u, response.now) > 0

\* C18: users of equal karma are in ascending order of user id, in the
\* leaderboard and at the cut after its fifth entry, so that the same store
\* and T always give the same sequence.
C18_TiesByUserId ==
    Listed =>
        /\ \A i \in 1..Len(response.data), j \in 1..Len(response.data) :
              (i < j /\ response.data[i].karma = response.data[j].karma)
                  => response.data[i].user_id < response.data[j].user_id
        /\ \A u \in auth_user : ~Appears(u) =>
              \A e \in Entries :
                  Karma(u, response.now) = e.karma => e.user_id < u

\* A user has no post or comment with a like in the window.
NothingLiked(u) ==
    /\ \A p \in PostsBy(u) : ~LikedSince("post", p.id, response.now - 24)
    /\ \A c \in CommentsBy(u) : ~LikedSince("comment", c.id, response.now - 24)

\* C17: with no Like row in the window the leaderboard is the empty sequence,
\* served as a normal response; and a user none of whose posts and comments
\* has a like in the window is not in the leaderboard, so no entry has
\* karma 0.
C17_NoActivityNoEntry ==
    Listed =>
        /\ (\A l \in feed_like : l.created < response.now - 24)
              => response.data = <<>>
        /\ \A u \in auth_user : NothingLiked(u) => ~Appears(u)
        /\ \A e \in Entries : e.karma > 0

\* The leaderboard of a store with content and likes, all of the likes older
\* than the window, is empty.
C17_Witness ==
    /\ Listed
    /\ feed_like # {}
    /\ \A l \in feed_like : l.created < response.now - 24
    /\ response.data = <<>>

Boards(now) ==
    {Slice(s) : s \in OrderBy({r \in Annotated(now) : KarmaGt0(r.karma)})}

\* C21: the leaderboard does not depend on the like_count columns: the one
\* served for a store is a leaderboard, for the same T, of every store that
\* differs from it in like_count values only.
C21_CountersNotRead ==
    Listed => response.data \in Boards(response.now)

\* A post is on the leaderboard's store with a Like row and like_count 0,
\* and its author is on the leaderboard.
C21_Witness ==
    /\ Listed
    /\ \E p \in feed_post :
          /\ LikesOn("post", p.id) # {}
          /\ p.like_count = 0
          /\ Appears(p.author)

\* A step of get_comments (or of the retrieve that enters it) or the step
\* that serves a leaderboard.
ReadStep ==
    \/ treeVars' # treeVars
    \/ response' # response /\ response'.status = 200

\* C23: building a comment tree and computing the leaderboard create, remove
\* and modify no user, post, comment or Like row and no like_count, at
\* whatever point between like toggles they run; the store is at every
\* moment what the toggles alone have made it.
C23_ReadsLeaveStore ==
    [][ReadStep =>
          UNCHANGED <<auth_user, feed_post, feed_comment, feed_like>>]_vars

\* A leaderboard has been served while get_comments was attaching the
\* comments of a post, over a store with a like.
C23_Witness ==
    /\ tpc = "attach"
    /\ ti > 1
    /\ Listed
    /\ feed_like # {}

\* The karma of u without post id.
KarmaWithout(u, id, T) ==
    5 * Cardinality({p \in PostsBy(u) :
                        p.id # id /\ LikedSince("post", p.id, T - 24)})
    + Cardinality({c \in CommentsBy(u) : LikedSince("comment", c.id, T - 24)})

\* C25: a post whose like a user has taken back, and which no other user
\* likes, adds nothing to its author's karma on the next leaderboard: the
\* author has the karma of the rest of their content, and is absent if that
\* is 0.
C25_UnlikedPostCountsNothing ==
    Listed =>
        \A d \in deleted, p \in feed_post :
            ( /\ d.kind = "like" /\ d.of = "post" /\ d.id = p.id
              /\ \A l \in LikesOn("post", p.id) : l.user = d.user )
            => IF KarmaWithout(p.author, p.id, response.now) = 0
               THEN ~Appears(p.author)
               ELSE /\ Appears(p.author)
                    /\ Reported(p.author) =
                          KarmaWithout(p.author, p.id, response.now)

\* A post was liked inside the window, the like was taken back, and the
\* leaderboard served next does not hold the author.
C25_Witness ==
    /\ Listed
    /\ \E d \in deleted, p \in feed_post :
          /\ d.kind = "like" /\ d.of = "post" /\ d.id = p.id
          /\ LikesOn("post", p.id) = {}
          /\ p.like_count = 0
          /\ ~Appears(p.author)


\* ------------------------------------------------------------- components
LikeRequests == {r \in inflight : r.op = "like"}

\* C28: a component instance has at most one like request outstanding: a
\* click while isLiking is true sends none, a click of a user who is not
\* authenticated sends none, and isLiking is true exactly while the request
\* is outstanding, whether it then succeeds or fails.
C28_OneLikeRequest ==
    /\ Cardinality(LikeRequests) <= 1
    /\ \A r \in LikeRequests : r.auth
    /\ isLiking <=> LikeRequests # {}

\* The like and the add-comment were both sent before either settled, and
\* both have succeeded.
BothSucceeded ==
    /\ inflight = {}
    /\ Len(log) = 4
    /\ \A i \in 1..2 : log[i].ev = "send"
    /\ {log[1].op, log[2].op} = {"like", "comment"}
    /\ \A i \in 3..4 : log[i].ev = "done" /\ log[i].ok

LikeResponse == log[CHOOSE i \in 3..4 : log[i].op = "like"].value

\* C29: when a like and an add-comment of one Post are outstanding together
\* and both succeed, in either order, the displayed comment_count is the
\* prior value + 1 and the displayed like_count is the one the like response
\* carried.
C29_NoLostUpdate ==
    (component \in Posts /\ BothSucceeded) =>
        /\ localPost.comment_count = post.comment_count + 1
        /\ localPost.like_count = LikeResponse

\* ----------------------------------------------------------- AuthProvider
\* C30: user is non-null only by the setUser of a successful login, register
\* or checkAuth; a failed login or register leaves user as it was and returns
\* success = false with an error message that is not empty; logout ends with
\* user = null whether its request succeeded or failed.
C30_AuthState ==
    /\ user # Null => setter \in {"login", "register", "checkAuth"}
    /\ (last.op \in {"login", "register"} /\ ~last.success) =>
          /\ last.after = last.before
          /\ last.error # <<>>
    /\ last.op = "logout" => last.after = Null

====
